---- MODULE Spec2Model ----
(***************************************************************************)
(* A model of the concurrency core of shitposter3:                         *)
(*   - ChromeRemoteDebugger (modules/chrome_automation.py): the request    *)
(*     dispatcher, the correlation table and the receive loop;             *)
(*   - AutomationEngine (core/engine.py): start/stop, the primary and the  *)
(*     secondary loop and the action queue, with the HTTP /action producer *)
(*     (services/http_server.py).                                          *)
(* Every coroutine is cut at its await points: one action is the code that *)
(* runs between two suspensions of the asyncio event loop.                 *)
(***************************************************************************)
EXTENDS Integers, Sequences, FiniteSets, TLC

(* ------------------------------ bounds -------------------------------- *)
\* send_command calls that are given an id (the callers in flight at once)
MaxReq == 2
\* successful connect() calls on one ChromeRemoteDebugger instance
MaxConn == 2

\* start() calls on one AutomationEngine (each launches a pair of loops)
MaxStarts == 2
\* actions put on the action queue over a run
MaxActions == 3
\* suggested_actions one analysis may carry
MaxSuggest == 2
\* the clock runs in ticks of 100 ms (the sleep between probes) up to MaxTime
MaxTime == 4
\* the timeouts of wait_for_selector, in ticks
MaxTimeout == 2
\* iterations of the secondary loop that get an image and text
MaxSecIters == 2
\* process ids of the system's process table
MaxPid == 2
\* target descriptors in a directory listing
MaxTabs == 3
MaxSide == 2
MaxLog == 2
MaxQueued == 2
MaxEvents == 3
\* register_command calls
MaxRegs == 3
\* generate calls
MaxCalls == 12

Ids == 1..MaxReq
Conns == 1..MaxConn
Loops == 1..MaxStarts
\* the producers of actions: 0 is the HTTP /action endpoint, l the
\* _process_analysis of the primary loop that the l-th start() runs
Producers == 0..MaxStarts

(* ------------------------------ frames -------------------------------- *)
\* A decoded inbound frame.  A "reply" carries an id (its result or error
\* payload is not looked at by send_command or _listen); an "event" is a
\* notification without id; "garbage" is a frame json.loads rejects.
NoFrame == [id |-> 0, kind |-> "none"]
ReplyFrames == [id : Ids, kind : {"reply"}]
Frames == ReplyFrames \cup {[id |-> 0, kind |-> "event"], [id |-> 0, kind |-> "garbage"]}

HasId(f) == f.kind = "reply"

VARIABLES
  \* ChromeRemoteDebugger fields
  ws,            \* self.ws: 0 is None, k the k-th connection object
  listening,     \* self._listening
  message_id,    \* self.message_id
  callbacks,     \* self.callbacks: id -> the call whose future the entry resolves, 0 absent
  \* the transport and the tasks around it
  connCount,     \* connections opened so far
  connOpen,      \* connOpen[k]: connection k is open
  lpc,           \* lpc[t]: position of the t-th _listen task
  lws,           \* lws[t]: the connection task t awaits recv() on
  closePc,       \* position of a close() call
  cpc,           \* cpc[c]: position of the c-th send_command call
  cid,           \* cid[c]: the id call c put in its request
  cres,          \* cres[c]: the frame call c returned
  \* history
  issued,        \* ids in issuance order
  resolved,      \* resolved[i]: times the completion of id i was invoked
  removed,       \* removed[i]: times id i's entry left the table
  stale,         \* a frame arrived whose id had been resolved before
  \* a wait_for_selector call, the clock and the page
  wpc,           \* position of the call: "idle", "doc", "query", "sleep", "done"
  wcall,         \* the send_command call the wait awaits
  wres,          \* what the wait returned
  wnode,         \* nodeId in the reply its send_command returned, 0 is None
  deadline,      \* its deadline
  wakeAt,        \* when its asyncio.sleep(0.1) ends
  now,           \* loop.time(), in ticks
  present,       \* the page holds an element that matches the selector
  \* history
  appearAt,      \* when the element appeared
  okAt,          \* when a probe's reply with a node reached the client
  \* AutomationEngine fields
  running,             \* self.running
  listeners,           \* the pynput listeners: "none", "started", "stopped"
  action_queue,        \* self.action_queue, an asyncio.Queue
  last_screen_content, \* self.last_screen_content: "None" or "text"
  \* the engine's tasks
  starts,        \* start() calls so far
  mpc,           \* mpc[l]: position of the _main_loop the l-th start() awaits
  spc,           \* spc[l]: position of the l-th _screen_analysis_loop task
  \* history
  enq,           \* enq[p]: actions producer p has put on the queue
  executed,      \* the actions handed to _execute_action, in order
  stopSeen,      \* stopSeen[l]: stop() was called after the l-th start()
  caught,        \* a primary loop has caught an exception
  \* the secondary loop's log
  daily_analysis, \* len(self.daily_analysis)
  sdelay,        \* sdelay[l]: the argument of the sleep the l-th secondary loop is in
  secText,       \* history: secondary iterations that got an image and text
  \* one analysis and its processing, on their own
  apc,           \* "idle", or "analyzed" between the analysis and _process_analysis
  aresp,         \* the result generate() returned to analyze_screen_content
  aout,          \* what analyze_screen_content did with it
  pres,          \* what _process_analysis did with the analysis
  \* the command registry and the process table
  running_commands, \* self.running_commands: name -> pid of its record, 0 absent
  proc,          \* proc[p]: "alive", "denied" (alive, access refused) or "dead"
  stats,         \* what the latest get_command_stats call returned
  statsTick,     \* flips at every get_command_stats call
  \* history
  ever,          \* the names that were ever registered
  termSeen,      \* termSeen[n]: a call has reported n terminated
  \* history of the receive loop
  lastFrame,     \* kind of the frame the step just taken read, "none" for other steps
  \* the latest connect() call
  ctabs,         \* the descriptors the directory lookup returned
  cstatus,       \* the status of the lookup's response
  chand,         \* whether the handshake with the endpoint succeeded
  cret,          \* what connect() returned
  cendpoint,     \* the endpoint connect() opened a connection to, 0 for none
  connTick,      \* flips at every connect() call
  \* one call of a facade method that builds on send_command
  fmeth,         \* the method called, "none" before the call
  fpc,           \* "idle", the request the call awaits the reply to, "done" or "raised"
  fsent,         \* the requests the call has sent, in order
  frecv,         \* the kinds of the replies its send_command calls returned, in order
  fnode,         \* node_id: what query_selector returned to the method
  fbox,          \* content: the quad of the box model's reply
  fret,          \* what the method returned
  \* the observation log and its summary
  dailyLog,      \* the entries of self.daily_analysis, in order
  summary,       \* what get_daily_summary returned for this log, if called
  \* _execute_action and the input handlers
  learned,       \* the learn_from_interaction calls made, in order
  automated,     \* the automation steps performed, in order
  xraised,       \* _execute_action has raised to the drain
  xfailed,       \* the actions whose execution raised inside _execute_action
  hevents,       \* the input events the listeners delivered, in order
  htasks,        \* the learning tasks the handlers created
  hraised,       \* the handler calls that raised
  \* history of send_command
  refusedTick,   \* flips at every send_command call that raised at its guard
  \* the registry's records in full
  start_time,    \* the 'start_time' of each name's record, 0 without a record
  regClock,      \* the reading of time.time() at the last register_command
  \* the HTTP server
  engine,        \* the module's global: "None" or the AutomationEngine
  startPc,       \* the /start request that created the engine: where it is
  startAnswer,   \* the status of the last answer of /start
  startTick,     \* flips at every answer of /start
  \* OllamaAI
  context,       \* self.context: the entries kept, oldest first
  gcalls,        \* the generate calls made
  succeeded      \* the entries of the calls that got a result, in order

cdpVars == <<ws, listening, message_id, callbacks, connCount, connOpen, lpc, lws, closePc, cpc, cid, cres, issued, resolved,
             removed, stale>>

engVars == <<running, listeners, action_queue, last_screen_content, starts,
             mpc, spc, enq, executed, stopSeen, caught, daily_analysis, sdelay, secText>>

secVars == <<daily_analysis, sdelay, secText>>

anaVars == <<apc, aresp, aout, pres>>

regVars == <<running_commands, proc, stats, statsTick, ever, termSeen>>

waitVars == <<wpc, wcall, wres, wnode, deadline, wakeAt, now, present, appearAt, okAt>>

conVars == <<ctabs, cstatus, chand, cret, cendpoint, connTick>>

facVars == <<fmeth, fpc, fsent, frecv, fnode, fbox, fret>>

sumVars == <<dailyLog, summary>>

recVars == <<start_time, regClock>>

httpVars == <<engine, startPc, startAnswer, startTick>>

ctxVars == <<context, gcalls, succeeded>>

lrnVars == <<learned, automated, xraised, xfailed, hevents, htasks, hraised>>

vars == <<cdpVars, waitVars, engVars, anaVars, regVars, lastFrame, conVars, facVars, sumVars, lrnVars, refusedTick, recVars, httpVars, ctxVars>>

(* ------------------- ChromeRemoteDebugger.__init__ -------------------- *)
InitCdp ==
  /\ ws = 0
  /\ listening = FALSE
  /\ message_id = 0
  /\ callbacks = [i \in Ids |-> 0]
  /\ connCount = 0
  /\ connOpen = [k \in Conns |-> FALSE]
  /\ lpc = [t \in Conns |-> "none"]
  /\ lws = [t \in Conns |-> 0]
  /\ closePc = "idle"
  /\ cpc = [c \in Ids |-> "idle"]
  /\ cid = [c \in Ids |-> 0]
  /\ cres = [c \in Ids |-> NoFrame]
  /\ issued = <<>>
  /\ resolved = [i \in Ids |-> 0]
  /\ removed = [i \in Ids |-> 0]
  /\ stale = FALSE
  /\ lastFrame = "none"
  /\ ctabs = <<>> /\ cstatus = 200 /\ chand = FALSE
  /\ cret = FALSE /\ cendpoint = 0 /\ connTick = FALSE

\* A _listen task that raises synchronously on every pass of its loop never
\* yields: the event loop runs nothing else from then on.
Hung == \E t \in Conns : lpc[t] = "spin"

(* ------------------------------ connect ------------------------------- *)
\* connect() never assigns message_id: the counter set in __init__ lives on.
ConnectMessageIdReset == 0
ConnectMessageId == message_id

\* Head of _listen's loop, as task t reaches it: leave when the flag is down
\* or self.ws is None, else call recv() on the current self.ws.  recv() on a
\* connection another task is already reading raises at once; the handler
\* logs it and the loop tries again, without ever suspending.
ListenHeadPc(t) ==
  IF ~listening \/ ws = 0 THEN "done"
  ELSE IF \E u \in Conns \ {t} : lpc[u] = "recv" /\ lws[u] = ws THEN "spin"
  ELSE "recv"

\* connect(), successful: the directory lookup found a page target and the
\* handshake succeeded; self.ws is replaced, the flag raised, a task created.
\* The lookup and the handshake suspend connect(), so a task created before
\* has run by the time self.ws is replaced.
ConnectOk ==
  /\ ~Hung
  /\ connCount < MaxConn
  /\ \A t \in Conns : lpc[t] # "start"
  /\ LET k == connCount + 1 IN
     /\ connCount' = k
     /\ ws' = k
     /\ connOpen' = [connOpen EXCEPT ![k] = TRUE]
     /\ listening' = TRUE
     /\ lpc' = [lpc EXCEPT ![k] = "start"]
     /\ message_id' = ConnectMessageId
  /\ UNCHANGED <<callbacks, lws, closePc, cpc, cid, cres, issued, resolved, removed, stale>>

\* The created _listen task runs for the first time.
ListenStart(t) ==
  /\ ~Hung
  /\ lpc[t] = "start"
  /\ lpc' = [lpc EXCEPT ![t] = ListenHeadPc(t)]
  /\ lws' = [lws EXCEPT ![t] = IF ListenHeadPc(t) = "recv" THEN ws ELSE @]
  /\ UNCHANGED <<ws, listening, message_id, callbacks, connCount, connOpen,
                 closePc, cpc, cid, cres, issued, resolved,
                 removed, stale>>

\* A directory listing: descriptors in order, each with its type and its
\* webSocketDebuggerUrl (here the descriptor's own number).
RECURSIVE Listings(_)
Listings(n) ==
  IF n = 0 THEN {<<>>}
  ELSE Listings(n - 1) \cup
       {Append(l, [type |-> ty, url |-> Len(l) + 1]) :
          l \in {x \in Listings(n - 1) : Len(x) = n - 1}, ty \in {"page", "iframe"}}

Tabs == Listings(MaxTabs)

\* next((tab for tab in tabs if tab["type"] == "page"), None): the position of
\* the descriptor chosen, 0 for None
FirstTab(tabs) == IF tabs = <<>> THEN 0 ELSE 1
FirstPage(tabs) ==
  IF \E i \in 1..Len(tabs) : tabs[i].type = "page"
  THEN CHOOSE i \in 1..Len(tabs) :
         tabs[i].type = "page" /\ \A j \in 1..(i - 1) : tabs[j].type # "page"
  ELSE 0

\* connect(): the lookup answers with status and tabs; hs tells whether the
\* handshake with the chosen endpoint succeeds.  A status other than 200, an
\* empty list, no page descriptor, a failed handshake: False, and nothing of
\* the instance is touched but current_tab.
Connect(status, tabs, hs) ==
  /\ ~Hung
  /\ ctabs' = tabs /\ cstatus' = status /\ chand' = hs
  /\ connTick' = ~connTick
  /\ IF status = 200 /\ FirstPage(tabs) # 0 /\ hs
     THEN /\ ConnectOk
          /\ cret' = TRUE
          /\ cendpoint' = tabs[FirstPage(tabs)].url
     ELSE /\ cret' = FALSE
          /\ cendpoint' = 0
          /\ UNCHANGED cdpVars

(* ---------------------------- send_command ---------------------------- *)
NextId(m) == m + 1

\* the counter if the id were allocated before the guard
IdAllocatedAtGuard(m) == NextId(m)

\* the counter after a call that raised at the guard: `self.message_id += 1`
\* comes after `if not self.ws: raise`
IdAfterGuard(m) == m

\* send_command on an instance whose self.ws is None: raises at the guard.
SendNotConnected ==
  /\ ~Hung
  /\ ws = 0
  /\ message_id' = IdAfterGuard(message_id)
  /\ UNCHANGED <<ws, listening, callbacks, connCount, connOpen, lpc, lws, closePc, cpc, cid, cres,
                 issued, resolved, removed, stale>>

\* the table if a failed write took the request's entry out again
TableAfterWriteFailsCleaned(id, c) == callbacks

\* the table after `await self.ws.send(...)` raised: the entry stored before
\* the write stays, nothing around the write removes it
TableAfterWriteFails(id, c) == [callbacks EXCEPT ![id] = c]

\* send_command up to its first suspension, for the call that is given the
\* next id: the id, the table entry and the write.  The write raises when the
\* connection is closed; otherwise the call awaits its future.
SendCommand ==
  /\ ~Hung
  /\ ws # 0
  /\ LET id == NextId(message_id)
         c == Len(issued) + 1
     IN
     /\ id \in Ids
     /\ c \in Ids
     /\ message_id' = id
     /\ callbacks' = IF connOpen[ws] THEN [callbacks EXCEPT ![id] = c]
                                     ELSE TableAfterWriteFails(id, c)
     /\ cid' = [cid EXCEPT ![c] = id]
     /\ issued' = Append(issued, id)
     /\ cpc' = [cpc EXCEPT ![c] = IF connOpen[ws] THEN "waiting" ELSE "raised"]
  /\ UNCHANGED <<ws, listening, connCount, connOpen, lpc, lws, closePc,
                 cres, resolved, removed, stale>>

(* ------------------------------ _listen -------------------------------- *)
\* the key _listen looks up for a frame that carries an id
PopKeyOldest(f) ==
  IF \E i \in Ids : callbacks[i] # 0
  THEN CHOOSE i \in Ids : callbacks[i] # 0 /\ \A j \in Ids : callbacks[j] # 0 => i <= j
  ELSE f.id
PopKey(f) == f.id

\* the call whose completion callbacks.pop finds for frame f: none for a
\* frame without an id, none when the id has no entry
CompletionOrOldest(f) ==
  IF HasId(f) THEN callbacks[PopKey(f)]
  ELSE IF \E i \in Ids : callbacks[i] # 0 THEN callbacks[PopKeyOldest(f)]
  ELSE 0
Completion(f) == IF HasId(f) THEN callbacks[PopKey(f)] ELSE 0

\* the table after callbacks.pop(key, None)
TableAfterGet(key) == callbacks
TableAfterPop(key) == [callbacks EXCEPT ![key] = 0]

\* where task t goes after frame f if an undecodable frame or a failed
\* completion ended the loop
ListenAfterFrameStrict(t, f) ==
  IF f.kind = "garbage" \/ Completion(f) # 0 THEN "done" ELSE ListenHeadPc(t)

\* where task t goes after frame f: json.loads raising on f and the await of
\* the completion raising are caught by `except Exception`, which logs and
\* falls through to the loop's head, as a frame handled without error does
ListenAfterFrame(t, f) == ListenHeadPc(t)

\* One pass of _listen's loop for task t: recv() returns f, the next frame on
\* the wire of the connection it reads (the browser may have sent any frame: a
\* reply to any id, issued or not, repeated or not, a notification, bytes that
\* are no JSON; frames buffered before the connection closed are still read
\* after it).  The frame is decoded and, when it carries an id with a
\* table entry, the entry is popped and its completion invoked (the await of
\* set_result's None then raises, which the handler logs); then the loop head.
ListenFrame(t, f) ==
  /\ ~Hung
  /\ lpc[t] = "recv"
  /\ LET key == PopKey(f)
         c == Completion(f)
     IN
     /\ IF c # 0
        THEN /\ callbacks' = TableAfterPop(key)
             /\ removed' = [removed EXCEPT ![key] = @ + (IF TableAfterPop(key)[key] = 0 THEN 1 ELSE 0)]
             /\ resolved' = [resolved EXCEPT ![key] = @ + 1]
             /\ cres' = [cres EXCEPT ![c] = IF cpc[c] = "waiting" THEN f ELSE @]
             /\ cpc' = [cpc EXCEPT ![c] = IF @ = "waiting" THEN "returned" ELSE @]
        ELSE UNCHANGED <<callbacks, removed, resolved, cres, cpc>>
  /\ lpc' = [lpc EXCEPT ![t] = ListenAfterFrame(t, f)]
  /\ lws' = [lws EXCEPT ![t] = IF ListenAfterFrame(t, f) = "recv" THEN ws ELSE @]
  /\ stale' = (stale \/ (HasId(f) /\ resolved[f.id] > 0))
  /\ UNCHANGED <<ws, listening, message_id, connCount, connOpen, closePc, cid,
                 issued>>

\* recv() raises ConnectionClosed: the connection task t reads has ended and
\* the frames it buffered were delivered.  _listen leaves its loop.
ListenClosed(t) ==
  /\ ~Hung
  /\ lpc[t] = "recv"
  /\ ~connOpen[lws[t]]
  /\ lpc' = [lpc EXCEPT ![t] = "done"]
  /\ UNCHANGED <<ws, listening, message_id, callbacks, connCount, connOpen, lws, closePc, cpc, cid, cres, issued, resolved, removed, stale>>

(* ------------------------------- close --------------------------------- *)
\* close() up to the await of ws.close(): the flag goes down and the closing
\* handshake of the current connection starts.
CloseBegin ==
  /\ ~Hung
  /\ closePc = "idle"
  /\ listening' = FALSE
  /\ IF ws # 0
     THEN /\ connOpen' = [connOpen EXCEPT ![ws] = FALSE]
          /\ closePc' = "closing"
     ELSE UNCHANGED <<connOpen, closePc>>
  /\ UNCHANGED <<ws, message_id, callbacks, connCount, lpc, lws, cpc, cid,
                 cres, issued, resolved, removed, stale>>

\* the correlation table as close() leaves it: close() does not touch it
TableAfterCloseCleared == [i \in Ids |-> 0]
TableAfterClose == callbacks

\* ws.close() has returned: self.ws = None.
CloseEnd ==
  /\ ~Hung
  /\ closePc = "closing"
  /\ ws' = 0
  /\ closePc' = "idle"
  /\ callbacks' = TableAfterClose
  /\ UNCHANGED <<listening, message_id, connCount, connOpen, lpc, lws, cpc, cid, cres, issued, resolved, removed, stale>>

(* ------------------------------ the remote ----------------------------- *)
\* The browser closes a connection.
RemoteClose(k) ==
  /\ ~Hung
  /\ connOpen[k]
  /\ connOpen' = [connOpen EXCEPT ![k] = FALSE]
  /\ UNCHANGED <<ws, listening, message_id, callbacks, connCount, lpc,
                 lws, closePc, cpc, cid, cres, issued, resolved, removed, stale>>

(* --------------------------- wait_for_selector ------------------------- *)
Timeouts == 0..MaxTimeout
\* a time after every deadline: "not yet"
Never == MaxTime + MaxTimeout + 1

InitWait ==
  /\ wpc = "idle"
  /\ wcall = 0
  /\ wres = FALSE
  /\ wnode = 0
  /\ deadline = 0
  /\ wakeAt = 0
  /\ now = 0
  /\ present = FALSE
  /\ appearAt = Never
  /\ okAt = Never

\* the wait returns r: a value of the loop, or False from the handler of an
\* exception its send_command raised
WaitReturn(r) ==
  /\ wpc' = "done"
  /\ wres' = r
  /\ UNCHANGED wcall

\* the exception leaves wait_for_selector instead of being handled
WaitOnExceptionRaise ==
  /\ wpc' = "raised"
  /\ UNCHANGED <<wres, wcall>>

\* `except Exception`: the error is logged and the wait returns False
WaitOnException == WaitReturn(FALSE)

\* send_command as query_selector and get_document call it, up to its
\* suspension; pc is where the wait resumes once the reply is in.
WaitSend(pc) ==
  \/ SendNotConnected /\ WaitOnException
  \/ /\ SendCommand
     /\ IF connOpen[ws]
        THEN /\ wpc' = pc
             /\ wcall' = Len(issued) + 1
             /\ UNCHANGED wres
        ELSE WaitOnException

\* `while loop.time() < deadline`: a probe starts with get_document's
\* request, or the loop ends and the wait returns False.
WaitHead(dl) ==
  IF now < dl
  THEN WaitSend("doc")
  ELSE /\ ~Hung
       /\ WaitReturn(FALSE)
       /\ UNCHANGED cdpVars

\* wait_for_selector(selector, timeout) up to its first suspension
WaitForSelector(T) ==
  /\ wpc = "idle"
  /\ deadline' = now + T
  /\ WaitHead(now + T)
  /\ UNCHANGED <<wnode, wakeAt, now, present, appearAt, okAt>>

\* get_document's reply is in: query_selector sends DOM.querySelector
WaitDocReturned ==
  /\ wpc = "doc"
  /\ cpc[wcall] = "returned"
  /\ WaitSend("query")
  /\ UNCHANGED <<wnode, deadline, wakeAt, now, present, appearAt, okAt>>

\* DOM.querySelector's reply is in: return True on a node id, else sleep
WaitQueryReturned ==
  /\ ~Hung
  /\ wpc = "query"
  /\ cpc[wcall] = "returned"
  /\ IF wnode # 0
     THEN /\ WaitReturn(TRUE)
          /\ UNCHANGED wakeAt
     ELSE /\ wpc' = "sleep"
          /\ wakeAt' = now + 1
          /\ UNCHANGED <<wcall, wres>>
  /\ UNCHANGED <<cdpVars, wnode, deadline, now, present, appearAt, okAt>>

\* asyncio.sleep(0.1) is over: back to the head of the loop
WaitWake ==
  /\ wpc = "sleep"
  /\ now >= wakeAt
  /\ WaitHead(deadline)
  /\ UNCHANGED <<wnode, deadline, wakeAt, now, present, appearAt, okAt>>

\* What a frame _listen reads means to the wait: n is the nodeId in its
\* result.  The browser names a node only in the reply to the wait's
\* DOM.querySelector, and only when the page holds a matching element.
WaitReply(f, n) ==
  LET c == IF HasId(f) THEN callbacks[PopKey(f)] ELSE 0
      mine == c # 0 /\ c = wcall /\ cpc[c] = "waiting"
  IN /\ n # 0 => (mine /\ wpc = "query" /\ present)
     /\ wnode' = IF mine THEN n ELSE wnode
     /\ okAt' = IF n # 0 /\ okAt = Never THEN now ELSE okAt
     /\ UNCHANGED <<wpc, wcall, wres, deadline, wakeAt, now, present, appearAt>>

\* 100 ms pass
Tick ==
  /\ now < MaxTime
  /\ now' = now + 1
  /\ UNCHANGED <<cdpVars, wpc, wcall, wres, wnode, deadline, wakeAt, present, appearAt, okAt>>

\* the page gets an element that matches the selector
DomAppear ==
  /\ ~present
  /\ present' = TRUE
  /\ appearAt' = now
  /\ UNCHANGED <<cdpVars, wpc, wcall, wres, wnode, deadline, wakeAt, now, okAt>>

(* ------------- navigate, query_selector, set_input_value, -------------- *)
(* ------------------- click_element, screenshot ------------------------- *)
FacadeMethods == {"navigate", "query_selector", "set_input_value", "click_element", "screenshot"}

\* the quad of a rectangle, as DOM.getBoxModel lists it: x0 y0 x1 y0 x1 y1 x0 y1
Quad(x0, y0, x1, y1) == <<x0, y0, x1, y0, x1, y1, x0, y1>>
\* rectangles away from the origin, of even width and height
Boxes == {Quad(2, 4, 2 + 2 * w, 4 + 2 * h) : w, h \in 1..MaxSide}
NoBox == Quad(0, 0, 0, 0)

\* nodeId absent from the reply (None); nodeId 0 is the browser's "no node"
NoNode == -1
NodeIds == {NoNode, 0, 1}

\* the replies send_command returns: a payload under "result", a payload
\* under "error", or neither
Replies == {[kind |-> "result", node |-> n, box |-> b] : n \in NodeIds, b \in Boxes}
           \cup {[kind |-> k, node |-> NoNode, box |-> NoBox] : k \in {"error", "bare"}}

\* `"result" not in box_model`, taken as true by no reply
NoResultNever(r) == FALSE

\* `"result" not in box_model`
NoResult(r) == r.kind # "result"

\* response.get("result", {}).get("nodeId")
NodeOf(r) == IF r.kind = "result" THEN r.node ELSE NoNode

\* `not node_id`
Falsy(n) == n = NoNode \/ n = 0

\* x = (content[0] + content[2]) / 2, y = (content[1] + content[5]) / 2
\* (tuples count from 1; the sums are even for every quad of Boxes)
Center(content) == <<(content[1] + content[3]) \div 2, (content[2] + content[6]) \div 2>>

\* a request without a mouse event's fields
Req(m) == [method |-> m, type |-> "none", pt |-> <<0, 0>>]
MouseEvent(ty, p) == [method |-> "Input.dispatchMouseEvent", type |-> ty, pt |-> p]

InitFacade ==
  /\ fmeth = "none"
  /\ fpc = "idle"
  /\ fsent = <<>>
  /\ frecv = <<>>
  /\ fnode = NoNode
  /\ fbox = NoBox
  /\ fret = "unset"

\* send_command inside a facade method: the request goes out and the method
\* awaits its reply at pc, or send_command raises (not connected, or the
\* write fails) and, no method but wait_for_selector having a handler, the
\* exception leaves the method
FacSend(req, ok, pc) ==
  IF ok
  THEN /\ fsent' = Append(fsent, req)
       /\ fpc' = pc
       /\ UNCHANGED fret
  ELSE /\ fpc' = "raised"
       /\ UNCHANGED <<fsent, fret>>

FacReturn(v) ==
  /\ fpc' = "done"
  /\ fret' = v
  /\ UNCHANGED fsent

\* a call of method m up to its first suspension; sel: screenshot got a selector
FacadeCall(m, sel, ok) ==
  /\ fpc = "idle"
  /\ fmeth' = m
  /\ IF m = "navigate"
     THEN FacSend(Req("Page.navigate"), ok, "Page.navigate")
     ELSE IF m = "screenshot" /\ ~sel
          THEN FacSend(Req("Page.captureScreenshot"), ok, "Page.captureScreenshot")
          ELSE FacSend(Req("DOM.getDocument"), ok, "DOM.getDocument")
  /\ UNCHANGED <<frecv, fnode, fbox>>

\* navigate: `return "error" not in response`
NavigateReturned(r) ==
  /\ fpc = "Page.navigate"
  /\ frecv' = Append(frecv, r.kind)
  /\ FacReturn(IF r.kind # "error" THEN "True" ELSE "False")
  /\ UNCHANGED <<fmeth, fnode, fbox>>

\* query_selector: get_document's reply is in, DOM.querySelector goes out
\* whatever the reply holds
GetDocumentReturned(r, ok) ==
  /\ fpc = "DOM.getDocument"
  /\ frecv' = Append(frecv, r.kind)
  /\ FacSend(Req("DOM.querySelector"), ok, "DOM.querySelector")
  /\ UNCHANGED <<fmeth, fnode, fbox>>

\* query_selector called on its own returns the node id or None
QuerySelectorReturned(r) ==
  /\ fmeth = "query_selector"
  /\ fpc = "DOM.querySelector"
  /\ frecv' = Append(frecv, r.kind)
  /\ fnode' = NodeOf(r)
  /\ FacReturn(IF NodeOf(r) = NoNode THEN "None" ELSE "node")
  /\ UNCHANGED <<fmeth, fbox>>

\* set_input_value after each of its replies
SetInputValue(r, ok) ==
  /\ fmeth = "set_input_value"
  /\ fpc \in {"DOM.querySelector", "DOM.focus", "Input.insertText"}
  /\ frecv' = Append(frecv, r.kind)
  /\ CASE fpc = "DOM.querySelector" ->
            /\ fnode' = NodeOf(r)
            /\ IF Falsy(NodeOf(r))
               THEN FacReturn("False")
               ELSE FacSend(Req("DOM.focus"), ok, "DOM.focus")
       [] fpc = "DOM.focus" ->
            /\ FacSend(Req("Input.insertText"), ok, "Input.insertText")
            /\ UNCHANGED fnode
       [] fpc = "Input.insertText" ->
            /\ FacReturn("True")
            /\ UNCHANGED fnode
  /\ UNCHANGED <<fmeth, fbox>>

\* click_element after each of its replies
ClickElement(r, ok) ==
  /\ fmeth = "click_element"
  /\ fpc \in {"DOM.querySelector", "DOM.getBoxModel", "mousePressed", "mouseReleased"}
  /\ frecv' = Append(frecv, r.kind)
  /\ CASE fpc = "DOM.querySelector" ->
            /\ fnode' = NodeOf(r)
            /\ IF Falsy(NodeOf(r))
               THEN FacReturn("False")
               ELSE FacSend(Req("DOM.getBoxModel"), ok, "DOM.getBoxModel")
            /\ UNCHANGED fbox
       [] fpc = "DOM.getBoxModel" ->
            /\ IF NoResult(r)
               THEN /\ FacReturn("False")
                    /\ UNCHANGED fbox
               ELSE /\ fbox' = r.box
                    /\ FacSend(MouseEvent("mousePressed", Center(r.box)), ok, "mousePressed")
            /\ UNCHANGED fnode
       [] fpc = "mousePressed" ->
            /\ FacSend(MouseEvent("mouseReleased", Center(fbox)), ok, "mouseReleased")
            /\ UNCHANGED <<fnode, fbox>>
       [] fpc = "mouseReleased" ->
            /\ FacReturn("True")
            /\ UNCHANGED <<fnode, fbox>>
  /\ UNCHANGED fmeth

\* screenshot after each of its replies
Screenshot(r, ok) ==
  /\ fmeth = "screenshot"
  /\ fpc \in {"DOM.querySelector", "DOM.getBoxModel", "Page.captureScreenshot"}
  /\ frecv' = Append(frecv, r.kind)
  /\ CASE fpc = "DOM.querySelector" ->
            /\ fnode' = NodeOf(r)
            /\ IF Falsy(NodeOf(r))
               THEN FacReturn("None")
               ELSE FacSend(Req("DOM.getBoxModel"), ok, "DOM.getBoxModel")
            /\ UNCHANGED fbox
       [] fpc = "DOM.getBoxModel" ->
            /\ IF NoResult(r)
               THEN /\ FacReturn("None")
                    /\ UNCHANGED fbox
               ELSE /\ fbox' = r.box
                    /\ FacSend(Req("Page.captureScreenshot"), ok, "Page.captureScreenshot")
            /\ UNCHANGED fnode
       [] fpc = "Page.captureScreenshot" ->
            /\ FacReturn(IF r.kind = "result" THEN "bytes" ELSE "None")
            /\ UNCHANGED <<fnode, fbox>>
  /\ UNCHANGED fmeth

(* ----------------- analyze_screen_content, _process_analysis ----------- *)
\* confidences, in hundredths, and the threshold of _process_analysis
Threshold == 70
Confidences == {0, Threshold - 1, Threshold, Threshold + 1, 100}

\* the value under an analysis' 'confidence' key: a number, something that
\* is no number (the prompt asks for the score in a string), or no such key
ConfValues ==
  [t : {"num"}, v : Confidences] \cup {[t |-> "str", v |-> 0], [t |-> "missing", v |-> 0]}

\* a JSON object: its confidence, and a list of n entries under key
Objects ==
  [conf : ConfValues, key : {"suggested_actions", "suggested_automations"}, n : 0..MaxSuggest]

\* analyze_screen_content's fallback: confidence 0.0, no suggested_actions key
Fallback ==
  [conf |-> [t |-> "num", v |-> 0], key |-> "suggested_automations", n |-> 0]

\* what generate() returns: a dict without a 'response' string (an error, a
\* status other than 200), or one whose response text is no JSON, JSON that
\* is no object (a list, a number, a string, null), or a JSON object
NoObject == [conf |-> [t |-> "missing", v |-> 0], key |-> "suggested_automations", n |-> 0]
Responses ==
  [kind : {"notext", "notjson", "nonobject"}, obj : {NoObject}]
    \cup [kind : {"object"}, obj : Objects]

\* analyze_screen_content on generate()'s result: json.loads of a response
\* string, the timestamp stored into what it yields, and the fallback when
\* there is no string or json.loads raises JSONDecodeError.  Storing under a
\* key raises TypeError on anything but a dict, and nothing catches it.
AnalyzeScreenContent(resp) ==
  CASE resp.kind = "notext" -> [raises |-> FALSE, analysis |-> Fallback]
    [] resp.kind = "notjson" -> [raises |-> FALSE, analysis |-> Fallback]
    [] resp.kind = "nonobject" -> [raises |-> TRUE, analysis |-> NoObject]
    [] OTHER -> [raises |-> FALSE, analysis |-> resp.obj]

\* `analysis.get('confidence', 0) > 0.7`
ExceedsOrEqual(v, th) == v >= th
Exceeds(v, th) == v > th

\* _process_analysis: the number of actions it puts on the queue, or raises
\* when the confidence cannot be compared with a float
ProcessAnalysis(a) ==
  IF a.conf.t = "str" THEN [raises |-> TRUE, n |-> 0]
  ELSE LET c == IF a.conf.t = "missing" THEN 0 ELSE a.conf.v
           listed == IF a.key = "suggested_actions" THEN a.n ELSE 0
       IN [raises |-> FALSE, n |-> IF Exceeds(c, Threshold) THEN listed ELSE 0]

NoOutcome == [raises |-> FALSE, n |-> 0]

InitAnalysis ==
  /\ apc = "idle"
  /\ aresp = [kind |-> "notext", obj |-> NoObject]
  /\ aout = AnalyzeScreenContent([kind |-> "notext", obj |-> NoObject])
  /\ pres = NoOutcome

\* analyze_screen_content(text) with generate() returning resp
Analyze(resp) ==
  /\ apc = "idle"
  /\ aresp' = resp
  /\ aout' = AnalyzeScreenContent(resp)
  /\ apc' = IF AnalyzeScreenContent(resp).raises THEN "idle" ELSE "analyzed"
  /\ pres' = IF AnalyzeScreenContent(resp).raises THEN NoOutcome ELSE pres

\* _process_analysis(analysis) on what it returned
Process ==
  /\ apc = "analyzed"
  /\ pres' = ProcessAnalysis(aout.analysis)
  /\ apc' = "idle"
  /\ UNCHANGED <<aresp, aout>>

(* ------------------------- the command registry ------------------------ *)
Names == {"run", "serve"}
Pids == 1..MaxPid

\* entries of a get_command_stats result
Absent == [status |-> "absent", fields |-> {}]
Terminated == [status |-> "terminated", fields |-> {"status"}]
Live == [status |-> "running", fields |-> {"pid", "runtime", "cpu", "memory", "status"}]

InitRegistry ==
  /\ running_commands = [n \in Names |-> 0]
  /\ proc = [p \in Pids |-> "alive"]
  /\ stats = [n \in Names |-> Absent]
  /\ statsTick = FALSE
  /\ ever = {}
  /\ termSeen = [n \in Names |-> FALSE]

\* a registry that keeps the first record of a name
RegisteredFirstKept(rc, n, v) == IF rc[n] # 0 THEN rc ELSE [rc EXCEPT ![n] = v]

\* self.running_commands[command_name] = {...}: the record under the name is
\* written, replacing the one it had
Registered(rc, n, v) == [rc EXCEPT ![n] = v]

InitRecords ==
  /\ start_time = [n \in Names |-> 0]
  /\ regClock = 0

\* register_command(name, pid): the record under name is written, replacing
\* the one it had
RegisterCommand(n, p) ==
  /\ running_commands' = Registered(running_commands, n, p)
  /\ ever' = ever \cup {n}
  /\ UNCHANGED <<proc, stats, statsTick, termSeen>>

\* the names get_command_stats reports: every key of running_commands
StatsNamesLive(rc) == {n \in Names : rc[n] # 0 /\ proc[rc[n]] # "dead"}
StatsNames(rc) == {n \in Names : rc[n] # 0}

\* the entry for a record with pid p: psutil.Process(p), cpu_percent and
\* memory_info raise NoSuchProcess for a pid that resolves to no process and
\* AccessDenied for one the caller may not inspect; both are caught
StatsEntry(p) == IF proc[p] = "alive" THEN Live ELSE Terminated

\* get_command_stats()
GetCommandStats ==
  /\ stats' = [n \in Names |-> IF n \in StatsNames(running_commands)
                                THEN StatsEntry(running_commands[n]) ELSE Absent]
  /\ statsTick' = ~statsTick
  /\ termSeen' = [n \in Names |-> termSeen[n] \/ stats'[n] = Terminated]
  /\ UNCHANGED <<running_commands, proc, ever>>

\* the process table: a process exits, a pid is given to a new process, the
\* caller loses or regains the right to inspect a process
ProcExit(p) ==
  /\ proc[p] # "dead"
  /\ proc' = [proc EXCEPT ![p] = "dead"]
  /\ UNCHANGED <<running_commands, stats, statsTick, ever, termSeen>>

ProcSpawn(p) ==
  /\ proc[p] = "dead"
  /\ proc' = [proc EXCEPT ![p] = "alive"]
  /\ UNCHANGED <<running_commands, stats, statsTick, ever, termSeen>>

ProcAccess(p) ==
  /\ proc[p] # "dead"
  /\ proc' = [proc EXCEPT ![p] = IF @ = "alive" THEN "denied" ELSE "alive"]
  /\ UNCHANGED <<running_commands, stats, statsTick, ever, termSeen>>

(* --------------------------- get_daily_summary ------------------------- *)
\* sorted_patterns[:5]
MaxPatterns == 5

\* key elements are strings; only their equality matters, and the k-th
\* distinct one to enter the log is named k
Elements == 1..(MaxPatterns + 1)

\* the confidences of logged analyses: two numbers, and no 'confidence' key
LogConfs == {[t |-> "num", v |-> Threshold], [t |-> "num", v |-> 100], [t |-> "missing", v |-> 0]}

\* the key elements of the log's entries, in the order the loops visit them
RECURSIVE AllKeys(_)
AllKeys(log) ==
  IF log = <<>> THEN <<>>
  ELSE AllKeys(SubSeq(log, 1, Len(log) - 1)) \o log[Len(log)].keys

\* total_confidence: the sum of analysis.get('confidence', 0)
RECURSIVE TotalConfidence(_)
TotalConfidence(log) ==
  IF log = <<>> THEN 0
  ELSE LET c == log[Len(log)].conf
       IN TotalConfidence(SubSeq(log, 1, Len(log) - 1)) + (IF c.t = "missing" THEN 0 ELSE c.v)

\* patterns[element] = patterns.get(element, 0) + 1: a dict keeps its keys
\* in insertion order
Bump(patterns, el) ==
  IF \E i \in 1..Len(patterns) : patterns[i].pattern = el
  THEN [i \in 1..Len(patterns) |->
          IF patterns[i].pattern = el
          THEN [patterns[i] EXCEPT !.frequency = @ + 1]
          ELSE patterns[i]]
  ELSE Append(patterns, [pattern |-> el, frequency |-> 1])

RECURSIVE Tally(_)
Tally(keys) ==
  IF keys = <<>> THEN <<>>
  ELSE Bump(Tally(SubSeq(keys, 1, Len(keys) - 1)), keys[Len(keys)])

\* where a later item goes among the sorted earlier ones if equal counts
\* were ordered last-seen first
PlaceBeforeEqual(sorted, p) ==
  Cardinality({i \in 1..Len(sorted) : sorted[i].frequency > p.frequency})

\* sorted(..., key=frequency, reverse=True) is stable: an item goes after
\* every earlier item whose count is at least its own
Place(sorted, p) ==
  Cardinality({i \in 1..Len(sorted) : sorted[i].frequency >= p.frequency})

RECURSIVE SortedPatterns(_)
SortedPatterns(items) ==
  IF items = <<>> THEN <<>>
  ELSE LET rest == SortedPatterns(SubSeq(items, 1, Len(items) - 1))
           p == items[Len(items)]
           k == Place(rest, p)
       IN SubSeq(rest, 1, k) \o <<p>> \o SubSeq(rest, k + 1, Len(rest))

NoSummary ==
  [kind |-> "none", total_observations |-> 0, total_confidence |-> 0,
   common_patterns |-> <<>>, start_time |-> 0, end_time |-> 0]

\* get_daily_summary(); average_confidence is total_confidence divided by
\* total_observations, kept as its numerator
GetDailySummaryOf(log) ==
  IF log = <<>>
  THEN [NoSummary EXCEPT !.kind = "error"]
  ELSE LET sorted == SortedPatterns(Tally(AllKeys(log)))
       IN [kind |-> "summary",
           total_observations |-> Len(log),
           total_confidence |-> TotalConfidence(log),
           common_patterns |-> SubSeq(sorted, 1, IF Len(sorted) < MaxPatterns
                                                 THEN Len(sorted) ELSE MaxPatterns),
           start_time |-> log[1].timestamp,
           end_time |-> log[Len(log)].timestamp]

InitSummary ==
  /\ dailyLog = <<>>
  /\ summary = NoSummary

\* self.daily_analysis.append({'timestamp': ..., 'analysis': analysis}):
\* the timestamp is the clock's reading, here the entry's ordinal
AppendAnalysis(conf, keys) ==
  /\ Len(dailyLog) < MaxLog
  /\ Len(AllKeys(dailyLog)) + Len(keys) <= MaxPatterns + 1
  /\ dailyLog' = Append(dailyLog, [timestamp |-> Len(dailyLog) + 1, conf |-> conf, keys |-> keys])
  /\ summary' = NoSummary

GetDailySummary ==
  /\ summary' = GetDailySummaryOf(dailyLog)
  /\ UNCHANGED dailyLog

(* ------------------- _execute_action, the input handlers --------------- *)
\* action.get('type'): the three the executor names, another one, or None
ActionTypes == {"click", "type", "scroll", "hover", "missing"}

\* the texts extract_text yields
Snapshots == {"text", "text2"}

\* the if / elif chain on action_type: every branch is `pass`, and there is
\* no else
AutomationSteps(ty) == <<>>

\* `if self.last_screen_content` taken whatever the cell holds
CellSetAlways(c) == TRUE

\* `if self.last_screen_content`
CellSet(c) == c # "None"

\* an exception of the body leaves _execute_action
ExecuteOnExceptionRaise(fails) == fails

\* `except Exception` of _execute_action: the error is logged
ExecuteOnException(fails) == FALSE

InitSend == refusedTick = FALSE

(* ------------------------------- OllamaAI ------------------------------ *)
\* self.max_context_length
max_context_length == 10

\* how a generate call ends: status 200 with a JSON object, another status,
\* or an exception (no connection, a body that is no JSON object)
Outcomes == {"ok", "status", "raise"}

\* a window that evicts its newest entry
UpdateContextPopLast(c, entry) ==
  LET a == Append(c, entry)
  IN IF Len(a) > max_context_length THEN SubSeq(a, 1, Len(a) - 1) ELSE a

\* _update_context: append, then pop(0) once the list is over the maximum
UpdateContext(c, entry) ==
  LET a == Append(c, entry)
  IN IF Len(a) > max_context_length THEN Tail(a) ELSE a

InitContext ==
  /\ context = <<>>
  /\ gcalls = 0
  /\ succeeded = <<>>

\* generate(prompt): only a 200 answer reaches _update_context; an error
\* status and an exception return {"error": ...}
Generate(outcome) ==
  /\ gcalls < MaxCalls
  /\ gcalls' = gcalls + 1
  /\ LET entry == [prompt |-> gcalls + 1, response |-> gcalls + 1] IN
     IF outcome = "ok"
     THEN /\ context' = UpdateContext(context, entry)
          /\ succeeded' = Append(succeeded, entry)
     ELSE UNCHANGED <<context, succeeded>>

\* engine: Optional[AutomationEngine] = None; startup_event builds a
\* BackgroundTasks object that nothing runs, so start_engine is not called
InitHttp ==
  /\ engine = "None"
  /\ startPc = "idle"
  /\ startAnswer = "none"
  /\ startTick = FALSE

InitLearning ==
  /\ learned = <<>>
  /\ automated = <<>>
  /\ xraised = FALSE
  /\ xfailed = <<>>
  /\ hevents = <<>>
  /\ htasks = 0
  /\ hraised = 0

(* ---------------------- AutomationEngine.__init__ ---------------------- *)
InitEngine ==
  /\ running = FALSE
  /\ listeners = "none"
  /\ action_queue = <<>>
  /\ last_screen_content = "None"
  /\ starts = 0
  /\ mpc = [l \in Loops |-> "none"]
  /\ spc = [l \in Loops |-> "none"]
  /\ enq = [p \in Producers |-> 0]
  /\ executed = <<>>
  /\ stopSeen = [l \in Loops |-> FALSE]
  /\ caught = FALSE
  /\ daily_analysis = 0
  /\ sdelay = [l \in Loops |-> 0]
  /\ secText = 0

Init == InitCdp /\ InitWait /\ InitAnalysis /\ InitRegistry /\ InitEngine /\ InitFacade /\ InitSummary /\ InitLearning /\ InitSend /\ InitRecords /\ InitHttp /\ InitContext

(* ---------------------------- start and stop --------------------------- *)
\* start(): raises the flag, arms the listeners, creates the secondary loop's
\* task and enters _main_loop, whose first `while self.running` passes.
Start ==
  /\ starts < MaxStarts
  /\ LET l == starts + 1 IN
     /\ starts' = l
     /\ running' = TRUE
     /\ listeners' = "started"
     /\ spc' = [spc EXCEPT ![l] = "created"]
     /\ mpc' = [mpc EXCEPT ![l] = "body"]
  /\ UNCHANGED <<action_queue, last_screen_content, enq, executed, stopSeen, caught>>

\* stop(): lowers the flag and stops the listeners there are.
Stop ==
  /\ running' = FALSE
  /\ listeners' = IF listeners = "none" THEN "none" ELSE "stopped"
  /\ stopSeen' = [l \in Loops |-> l <= starts]
  /\ UNCHANGED <<action_queue, last_screen_content, starts, mpc, spc, enq,
                 executed, caught>>

\* The lifecycle state the fields encode: the flag is up from start() to
\* stop(); an engine whose flag is down has been stopped if it was started.
Lifecycle ==
  IF running THEN "Running" ELSE IF starts = 0 THEN "NotStarted" ELSE "Stopped"

\* the primary loops that have not terminated: the consumers of the queue
LiveMainLoops == {l \in Loops : mpc[l] \notin {"none", "done"}}

(* ---------------------------- the action queue ------------------------- *)
\* asyncio.Queue.get on a non-empty queue: <<the item, the queue left>>
QueueGetLifo(q) == <<q[Len(q)], SubSeq(q, 1, Len(q) - 1)>>
QueueGet(q) == <<Head(q), Tail(q)>>

\* asyncio.Queue.put of the actions as, in order
QueuePut(q, as) == q \o as

\* the k actions producer p enqueues next
NewActions(p, k) == [i \in 1..k |-> [prod |-> p, n |-> enq[p] + i]]

\* POST /action: engine.action_queue.put(action)
HttpQueueAction ==
  /\ starts >= 1
  /\ Len(executed) + Len(action_queue) < MaxActions
  /\ action_queue' = QueuePut(action_queue, NewActions(0, 1))
  /\ enq' = [enq EXCEPT ![0] = @ + 1]
  /\ UNCHANGED <<running, listeners, last_screen_content, starts, mpc, spc,
                 executed, stopSeen, caught>>

(* ---------------------------- the primary loop ------------------------- *)
\* the order in which a drain that never suspends takes the items of q
RECURSIVE DrainOrder(_)
DrainOrder(q) ==
  IF q = <<>> THEN <<>> ELSE <<QueueGet(q)[1]>> \o DrainOrder(QueueGet(q)[2])

\* `while not self.action_queue.empty()`: get and _execute_action, up to the
\* next suspension.  _execute_action awaits the learning call only when
\* last_screen_content is set; it catches whatever its body raises.
Drain(l, q, lsc) ==
  IF q = <<>>
  THEN /\ action_queue' = q
       /\ executed' = executed
       /\ mpc' = [mpc EXCEPT ![l] = "sleeping"]
  ELSE IF lsc = "None"
  THEN /\ action_queue' = <<>>
       /\ executed' = executed \o DrainOrder(q)
       /\ mpc' = [mpc EXCEPT ![l] = "sleeping"]
  ELSE /\ action_queue' = QueueGet(q)[2]
       /\ executed' = Append(executed, QueueGet(q)[1])
       /\ mpc' = [mpc EXCEPT ![l] = "executing"]

\* `except Exception` of _main_loop: log, and back to the loop's head
MainOnExceptionFatal(l) == [mpc EXCEPT ![l] = "done"]
MainOnException(l) == [mpc EXCEPT ![l] = "check"]

\* `while self.running`, reached after the sleep or from the handler
MainCheck(l) ==
  /\ mpc[l] \in {"check", "sleeping"}
  /\ mpc' = [mpc EXCEPT ![l] = IF running THEN "body" ELSE "done"]
  /\ UNCHANGED <<running, listeners, action_queue, last_screen_content, starts,
                 spc, enq, executed, stopSeen, caught>>

\* The body up to its first suspension: capture_screen, the test of the image
\* and extract_text.  cap is what they yield: "none" (no image), "notext",
\* "text", or "raise" (an exception, e.g. the truth value of an image array).
MainBody(l, cap) ==
  /\ mpc[l] = "body"
  /\ CASE cap = "raise" ->
            /\ mpc' = MainOnException(l)
            /\ caught' = TRUE
            /\ UNCHANGED <<action_queue, executed>>
       [] cap = "text" ->
            /\ mpc' = [mpc EXCEPT ![l] = "analyzing"]
            /\ UNCHANGED <<action_queue, executed, caught>>
       [] OTHER ->
            /\ Drain(l, action_queue, last_screen_content)
            /\ UNCHANGED caught
  /\ UNCHANGED <<running, listeners, last_screen_content, starts, spc, enq,
                 stopSeen>>

\* the cell were the assignment made before the analysis
CellAssignedFirst(c) == "text"

\* the cell when the analysis or its processing raises: the assignment, which
\* follows them, is not reached
CellOnException(c) == c

\* generate() has returned resp: analyze_screen_content returns or raises,
\* _process_analysis enqueues or raises, last_screen_content is assigned and
\* the drain starts.
MainAnalyzed(l, resp) ==
  /\ mpc[l] = "analyzing"
  /\ IF \/ AnalyzeScreenContent(resp).raises
        \/ ProcessAnalysis(AnalyzeScreenContent(resp).analysis).raises
     THEN /\ mpc' = MainOnException(l)
          /\ caught' = TRUE
          /\ last_screen_content' = CellOnException(last_screen_content)
          /\ UNCHANGED <<action_queue, executed, enq>>
     ELSE LET n == ProcessAnalysis(AnalyzeScreenContent(resp).analysis).n IN
          /\ Len(executed) + Len(action_queue) + n <= MaxActions
          /\ enq' = [enq EXCEPT ![l] = @ + n]
          /\ last_screen_content' = "text"
          /\ Drain(l, QueuePut(action_queue, NewActions(l, n)), "text")
          /\ UNCHANGED caught
  /\ UNCHANGED <<running, listeners, starts, spc, stopSeen>>

\* The learning call of _execute_action has returned: the drain goes on.
MainExecuted(l) ==
  /\ mpc[l] = "executing"
  /\ Drain(l, action_queue, last_screen_content)
  /\ UNCHANGED <<running, listeners, last_screen_content, starts, spc, enq,
                 stopSeen, caught>>

(* --------------------------- the secondary loop ------------------------ *)
\* config['screenshot'].get('interval', 5), in seconds
Interval == 5
\* the sleep of the exception handler, in seconds
BackoffDelay == 5

\* the parameters analyze_screen_content declares besides self, and the
\* keywords of the secondary loop's call
AnalyzeParams == {"text_content"}
SecCallPositional == 1
SecCallKeywords == {"system_prompt"}

\* Python binds a call or raises TypeError: every keyword must be a declared
\* parameter and the positional arguments must fit
CallRaises(params, npos, kws) ==
  \/ ~(kws \subseteq params)
  \/ npos + Cardinality(kws) > Cardinality(params)

\* where the loop goes when an iteration raises: the handler sleeps
SecOnExceptionFatal(l) == "done"
SecOnException(l) == "backoff"

\* _screen_analysis_loop from its `while self.running` to its next sleep.
\* With no image or no text it sleeps the interval.  With text it calls
\* analyze_screen_content(text, system_prompt=...); a call that binds is
\* followed by the append to daily_analysis and the interval's sleep, an
\* iteration that raises by the handler's sleep.
SecRun(l, cap) ==
  /\ spc[l] \in {"created", "sleeping", "backoff"}
  /\ IF ~running
     THEN /\ spc' = [spc EXCEPT ![l] = "done"]
          /\ UNCHANGED <<daily_analysis, sdelay>>
     ELSE LET fails == \/ cap = "raise"
                       \/ cap = "text" /\ CallRaises(AnalyzeParams, SecCallPositional, SecCallKeywords)
          IN
          /\ daily_analysis' = IF cap = "text" /\ ~fails THEN daily_analysis + 1 ELSE daily_analysis
          /\ spc' = [spc EXCEPT ![l] = IF fails THEN SecOnException(l) ELSE "sleeping"]
          /\ sdelay' = [sdelay EXCEPT ![l] = IF fails /\ SecOnException(l) = "backoff"
                                             THEN BackoffDelay ELSE Interval]
  /\ UNCHANGED <<running, listeners, action_queue, last_screen_content, starts,
                 mpc, enq, executed, stopSeen, caught>>

\* the count of the secondary iterations that got an image and text
SecSeen(cap) ==
  /\ (running /\ cap = "text") => secText < MaxSecIters
  /\ secText' = IF running /\ cap = "text" THEN secText + 1 ELSE secText

(* ---------------------------- the HTTP server -------------------------- *)
\* `return {"status": a}` of /start
AnswerStart(a) ==
  /\ startAnswer' = a
  /\ startTick' = ~startTick

\* POST /start up to its return or its first suspension.  With a Running
\* engine it answers "already running".  Otherwise it calls start_engine(),
\* which does something only while there is no engine: it makes one and
\* awaits engine.start(), that is the whole primary loop.  With an engine
\* that is not Running start_engine() returns at once and the answer is
\* "started".
HttpStart ==
  IF engine # "None" /\ running
  THEN /\ AnswerStart("already running")
       /\ UNCHANGED <<engine, startPc, running, listeners, action_queue,
                      last_screen_content, starts, mpc, spc, enq, executed,
                      stopSeen, caught>>
  ELSE IF engine = "None"
  THEN /\ engine' = "AutomationEngine"
       /\ Start
       /\ startPc' = "awaiting"
       /\ UNCHANGED <<startAnswer, startTick>>
  ELSE /\ AnswerStart("started")
       /\ UNCHANGED <<engine, startPc, running, listeners, action_queue,
                      last_screen_content, starts, mpc, spc, enq, executed,
                      stopSeen, caught>>

\* the primary loop that engine.start() awaits has ended: start_engine()
\* returns and the request that created the engine answers
HttpStartReturns ==
  /\ startPc = "awaiting"
  /\ mpc[starts] = "done"
  /\ startPc' = "answered"
  /\ AnswerStart("started")
  /\ UNCHANGED <<engine, running, listeners, action_queue, last_screen_content,
                 starts, mpc, spc, enq, executed, stopSeen, caught>>

\* POST /stop: engine.stop() if there is an engine
HttpStop ==
  /\ IF engine # "None"
     THEN Stop
     ELSE UNCHANGED <<running, listeners, action_queue, last_screen_content,
                      starts, mpc, spc, enq, executed, stopSeen, caught>>
  /\ UNCHANGED httpVars

(* ------------------- the executor and the handlers -------------------- *)
\* a producer puts an action descriptor of type ty on the queue
PutAction(ty) ==
  /\ Len(executed) + Len(action_queue) < MaxQueued
  /\ action_queue' = QueuePut(action_queue, <<[type |-> ty, n |-> Len(executed) + Len(action_queue) + 1]>>)
  /\ UNCHANGED <<last_screen_content, executed, learned, automated, xraised>>

\* _main_loop: self.last_screen_content = text_content
ObserveText(t) ==
  /\ last_screen_content' = t
  /\ UNCHANGED <<action_queue, executed, learned, automated, xraised>>

\* one turn of the drain: action_queue.get() and _execute_action(action).
\* after is what extract_text() yields; fails: learn_from_interaction raises.
ExecuteAction(after, fails) ==
  /\ action_queue # <<>>
  /\ ~xraised
  /\ LET action == QueueGet(action_queue)[1] IN
     /\ action_queue' = QueueGet(action_queue)[2]
     /\ executed' = Append(executed, action)
     /\ automated' = automated \o AutomationSteps(action.type)
     /\ learned' = IF CellSet(last_screen_content)
                   THEN Append(learned, [before |-> last_screen_content,
                                         action |-> action, after |-> after])
                   ELSE learned
     /\ xraised' = (CellSet(last_screen_content) /\ ExecuteOnException(fails))
  /\ UNCHANGED last_screen_content

\* the thread on which a pynput listener invokes the callbacks given to it:
\* its own, not the event loop's ("loop")
ListenerThread == "listener"

\* asyncio.create_task(coro) on thread th: the task is scheduled on the
\* loop running in that thread; without one it raises RuntimeError
CreateTask(th) ==
  IF th = "loop"
  THEN /\ htasks' = htasks + 1
       /\ UNCHANGED hraised
  ELSE /\ hraised' = hraised + 1
       /\ UNCHANGED htasks

\* _on_click(x, y, button, pressed), called by the mouse listener
OnClick(pressed) ==
  /\ Len(hevents) < MaxEvents
  /\ hevents' = Append(hevents, IF pressed THEN "press" ELSE "release")
  /\ IF pressed THEN CreateTask(ListenerThread) ELSE UNCHANGED <<htasks, hraised>>

\* _on_scroll, _on_key_press, _on_key_release, called by the listeners
OnEvent(ev) ==
  /\ Len(hevents) < MaxEvents
  /\ hevents' = Append(hevents, ev)
  /\ CreateTask(ListenerThread)

(* ------------------------------ the claims ----------------------------- *)
\* C1: every send_command call that returns returns the frame whose id equals
\* the id it put in its own request, whatever the order of arrival of the
\* replies; it never returns a frame addressed to another call.
C1_OwnResponse ==
  \A c \in Ids : cpc[c] = "returned" => (HasId(cres[c]) /\ cres[c].id = cid[c])

\* two requests were in flight at once; the reply to the 2nd has arrived
\* first and its call returned, the 1st is still awaited
C1_Witness ==
  /\ message_id = 2
  /\ cpc[2] = "returned" /\ cres[2].id = cid[2]
  /\ cpc[1] = "waiting" /\ callbacks[1] = 1

\* C2: the completion of a request is invoked at most once and its entry
\* leaves the correlation table at most once; once an id is resolved no later
\* frame, whatever id it carries, changes that request's entry or outcome.
C2_ResolvedOnce ==
  /\ [](\A i \in Ids : resolved[i] <= 1 /\ removed[i] <= 1)
  /\ [][\A i \in Ids : resolved[i] = 1 =>
          /\ resolved'[i] = 1
          /\ removed'[i] = removed[i]
          /\ callbacks'[i] = callbacks[i]
          /\ \A c \in Ids : cid[c] = i => (cpc'[c] = cpc[c] /\ cres'[c] = cres[c])]_vars

\* a frame repeating an id that was resolved has been read
C2_Witness ==
  /\ stale
  /\ \E i \in Ids : resolved[i] = 1 /\ removed[i] = 1 /\ callbacks[i] = 0

\* C3: every request that was issued and awaits its reply is eventually
\* resolved (with a result or an error) or timed out: no call stays
\* suspended forever.
C3_EveryRequestCompletes ==
  \A c \in Ids : (cpc[c] = "waiting") ~> (cpc[c] # "waiting")

\* C4: the ids one instance issues are strictly increasing in issuance order
\* (hence never issued twice), across close() and connect().
C4_IdsStrictlyIncreasing ==
  \A i, j \in 1..Len(issued) : i < j => issued[i] < issued[j]

\* an instance that was connected twice and then closed, both its receive
\* loops ended, has issued ids before and after its second connect()
C4_Witness ==
  /\ connCount = 2 /\ ws = 0
  /\ issued = <<1, 2>>
  /\ cpc[1] = "returned" /\ cpc[2] = "raised"
  /\ lpc[1] = "done" /\ lpc[2] = "done"

ReceiveLoopsOn(k) ==
  {t \in Conns : (lpc[t] = "recv" /\ lws[t] = k) \/ (lpc[t] = "spin" /\ ws = k)}

\* C19: at most one receive loop runs per connection, for any sequence of
\* connect() and close() calls.
C19_OneReceiveLoopPerConnection ==
  \A k \in Conns : Cardinality(ReceiveLoopsOn(k)) <= 1

\* C21: connect() opens the connection to the endpoint of the first
\* descriptor of type "page", in the listing's order; when the lookup fails,
\* the listing is empty or holds no page, it returns False, opens no
\* connection and starts no receive loop.
C21_ConnectsToFirstPage ==
  /\ [](cret => /\ cstatus = 200
                /\ \E i \in 1..Len(ctabs) :
                     /\ ctabs[i].type = "page" /\ cendpoint = ctabs[i].url
                     /\ \A j \in 1..(i - 1) : ctabs[j].type # "page")
  /\ []((cstatus = 200 /\ chand /\ \E i \in 1..Len(ctabs) : ctabs[i].type = "page") => cret)
  /\ [][(connTick' # connTick /\ ~cret') =>
          (ws' = ws /\ connCount' = connCount /\ connOpen' = connOpen /\ lpc' = lpc
           /\ listening' = listening)]_vars

\* the listing put a page second and third: the connection is to the second
C21_Witness ==
  /\ Len(ctabs) = 3 /\ ctabs[1].type # "page"
  /\ ctabs[2].type = "page" /\ ctabs[3].type = "page"
  /\ cret /\ cendpoint = 2 /\ ws # 0

\* C20: a frame without an id is dropped: reading it invokes no completion,
\* wakes no caller, leaves the correlation table and the id counter as they
\* were, and does not end the receive loop, which returns to its head.
C20_NotificationDropped ==
  [][lastFrame' = "event" =>
       /\ callbacks' = callbacks /\ message_id' = message_id
       /\ resolved' = resolved /\ removed' = removed
       /\ cpc' = cpc /\ cres' = cres
       /\ \A t \in Conns : (lpc[t] # "done" /\ lpc'[t] = "done") => (~listening \/ ws = 0)]_vars

\* a notification has just been read while a request is pending: the request
\* is still awaited and the loop is receiving again
C20_Witness ==
  /\ lastFrame = "event"
  /\ message_id = 1 /\ cpc[1] = "waiting" /\ callbacks[1] = 1
  /\ lpc[1] = "recv"

\* the actions of producer p in seq, in seq's order
RECURSIVE ProducedBy(_, _)
ProducedBy(seq, p) ==
  IF seq = <<>> THEN <<>>
  ELSE (IF Head(seq).prod = p THEN <<Head(seq)>> ELSE <<>>) \o ProducedBy(Tail(seq), p)

\* C6: the actions of each producer are executed in the order it enqueued
\* them, none skipped and none twice; every action enqueued is either executed
\* once or still queued, whatever the interleaving of producers and drain.
C6_FifoExactlyOnce ==
  \A p \in Producers :
    LET e == ProducedBy(executed, p)
        w == ProducedBy(executed \o action_queue, p)
    IN /\ \A i \in 1..Len(e) : e[i].n = i
       /\ Len(w) = enq[p]
       /\ \A i \in 1..Len(w) : w[i].n = i

\* the drain has executed actions of the HTTP endpoint and two actions of a
\* primary loop's analysis
C6_Witness ==
  /\ Len(executed) = 3
  /\ Len(ProducedBy(executed, 0)) = 1
  /\ Len(ProducedBy(executed, 1)) = 2

\* C7: at most one primary loop consumes the action queue, for any sequence
\* of start() and stop() calls.
C7_SingleConsumer == Cardinality(LiveMainLoops) <= 1

\* C8: the lifecycle only moves NotStarted -> Running and Running -> Stopped:
\* a stopped engine never runs again, none is stopped before it ran.
C8_LifecycleTransitions ==
  [][Lifecycle' # Lifecycle =>
       <<Lifecycle, Lifecycle'>> \in {<<"NotStarted", "Running">>, <<"Running", "Stopped">>}]_vars

\* C9: a loop that was running when stop() was called begins no new
\* iteration: it never passes its `while self.running` test again.
C9_NoNewIterationAfterStop ==
  [][\A l \in Loops : stopSeen[l] =>
       /\ ~(mpc[l] \in {"check", "sleeping"} /\ mpc'[l] = "body")
       /\ ~(spc[l] \in {"created", "sleeping", "backoff"} /\ spc'[l] \in {"sleeping", "backoff"}
            /\ spc'[l] # spc[l])]_vars

\* C10: a primary loop terminates only at its `while self.running` test, with
\* the flag down; no exception raised in an iteration ends it.
C10_OnlyTheFlagEndsTheLoop ==
  [][\A l \in Loops : (mpc[l] # "done" /\ mpc'[l] = "done") =>
       (~running /\ mpc[l] \in {"check", "sleeping"})]_vars

\* the only primary loop has caught an exception and is in a later iteration
C10_Witness ==
  /\ starts = 1 /\ running /\ caught
  /\ mpc[1] \in {"body", "analyzing", "executing"}

\* C5: wait_for_selector(sel, T) returns true iff a probe's reply with a node
\* reached the client by the deadline; it returns false when the element
\* first appears after the deadline.
C5_TrueIffProbeByDeadline ==
  wpc = "done" =>
    /\ wres <=> okAt <= deadline
    /\ appearAt > deadline => ~wres

C12_LogGrowsByOnePerTextIteration == daily_analysis = secText

\* C13: _process_analysis enqueues only for a confidence strictly greater than
\* 0.7: for 0.7 exactly, for less, for the fallback object, nothing is enqueued.
C13_EnqueueOnlyAboveThreshold ==
  (apc = "idle" /\ ~aout.raises) =>
    /\ pres.n > 0 => (aout.analysis.conf.t = "num" /\ aout.analysis.conf.v > Threshold)
    /\ aout.analysis = Fallback => pres.n = 0
    /\ (aout.analysis.conf.t = "num" /\ aout.analysis.conf.v = Threshold) => pres.n = 0

\* an analysis just above the threshold has had all its actions enqueued
C13_Witness ==
  /\ apc = "idle" /\ pres.n = MaxSuggest
  /\ aout.analysis.conf = [t |-> "num", v |-> Threshold + 1]

\* C14: for a response without text, with text that is no JSON, or with JSON
\* that is no object, analyze_screen_content returns the fallback object and
\* does not raise.
C14_FallbackNeverRaises ==
  aresp.kind \in {"notext", "notjson", "nonobject"} =>
    (~aout.raises /\ aout.analysis = Fallback)

\* C15: get_command_stats yields, for a record whose pid resolves to no
\* process, an entry with status "terminated" and no pid, runtime, cpu or
\* memory field; for a record whose process is alive, an entry with runtime
\* and the live cpu and memory fields.
C15_TerminatedOrLiveFields ==
  [][statsTick' # statsTick =>
       \A n \in Names : running_commands[n] # 0 =>
         IF proc[running_commands[n]] = "dead"
         THEN stats'[n].status = "terminated" /\ stats'[n].fields = {"status"}
         ELSE {"runtime", "cpu", "memory"} \subseteq stats'[n].fields]_vars

\* C16: every name that was ever registered is in the result of every later
\* get_command_stats call, terminated or not.
C16_RecordsNeverDeleted ==
  [][statsTick' # statsTick => \A n \in ever : stats'[n] # Absent]_vars

\* a call has reported one name terminated, its process dead, and the other live
C16_Witness ==
  /\ ever = Names
  /\ proc[running_commands["run"]] = "dead" /\ stats["run"] = Terminated
  /\ stats["serve"] = Live

\* C17: once a call has reported "terminated" for a name, every later call
\* reports "terminated" for it.
C17_TerminatedNeverReverses ==
  \A n \in Names : termSeen[n] => stats[n].status = "terminated"

AnaStep == UNCHANGED <<cdpVars, waitVars, engVars, regVars, lastFrame, conVars, facVars, sumVars, lrnVars, refusedTick, recVars, httpVars, ctxVars>>
RegStep == UNCHANGED <<cdpVars, waitVars, engVars, anaVars, lastFrame, conVars, facVars, sumVars, lrnVars, refusedTick, recVars, httpVars, ctxVars>>

CdpStep == UNCHANGED <<waitVars, engVars, anaVars, regVars, lastFrame, conVars, facVars, sumVars, lrnVars, refusedTick, recVars, httpVars, ctxVars>>
EngineStep == UNCHANGED <<cdpVars, waitVars, secVars, anaVars, regVars, lastFrame, conVars, facVars, sumVars, lrnVars, refusedTick, recVars, httpVars, ctxVars>>
SecStep == UNCHANGED <<cdpVars, waitVars, anaVars, regVars, lastFrame, conVars, facVars, sumVars, lrnVars, refusedTick, recVars, httpVars, ctxVars>>
WaitStep == UNCHANGED <<engVars, anaVars, regVars, lastFrame, conVars, facVars, sumVars, lrnVars, refusedTick, recVars, httpVars, ctxVars>>

Captures == {"none", "notext", "text", "raise"}

NextCdp ==
  \/ ConnectOk /\ CdpStep
  \/ \E t \in Conns : ListenStart(t) /\ CdpStep
  \/ SendNotConnected /\ CdpStep
  \/ SendCommand /\ CdpStep
  \/ \E t \in Conns, f \in Frames : ListenFrame(t, f) /\ CdpStep
  \/ \E t \in Conns : ListenClosed(t) /\ CdpStep
  \/ CloseBegin /\ CdpStep
  \/ CloseEnd /\ CdpStep
  \/ \E k \in Conns : RemoteClose(k) /\ CdpStep

SpecCdp == Init /\ [][NextCdp]_vars

\* The code's scheduling: a created task is run, recv() on a closed connection
\* raises, ws.close() returns.  Nothing makes the browser send a frame, and
\* nothing makes a client call connect(), send_command() or close().
FairCdp ==
  /\ \A t \in Conns : WF_vars(ListenStart(t) /\ CdpStep)
  /\ \A t \in Conns : WF_vars(ListenClosed(t) /\ CdpStep)
  /\ WF_vars(CloseEnd /\ CdpStep)

FairSpecCdp == SpecCdp /\ FairCdp

\* one wait_for_selector call on a client whose connection the browser may
\* close, with the clock and the page moving on
\* the client with the kind of every frame read on record
FrameSeen(f) == lastFrame' = f.kind
FrameNone == lastFrame' = "none"
FrmStep == UNCHANGED <<waitVars, engVars, anaVars, regVars, conVars, facVars, sumVars, lrnVars, refusedTick, recVars, httpVars, ctxVars>>

NextFrames ==
  \/ ConnectOk /\ FrameNone /\ FrmStep
  \/ \E t \in Conns : ListenStart(t) /\ FrameNone /\ FrmStep
  \/ SendCommand /\ FrameNone /\ FrmStep
  \/ \E t \in Conns, f \in Frames : ListenFrame(t, f) /\ FrameSeen(f) /\ FrmStep
  \/ CloseBegin /\ FrameNone /\ FrmStep
  \/ CloseEnd /\ FrameNone /\ FrmStep

SpecFrames == Init /\ [][NextFrames]_vars

\* connect() calls on arbitrary listings, the receive loops they start, close()
ConStep == UNCHANGED <<waitVars, engVars, anaVars, regVars, lastFrame, facVars, sumVars, lrnVars, refusedTick, recVars, httpVars, ctxVars>>
Statuses == {200, 500}

NextConnect ==
  \/ \E st \in Statuses, tabs \in Tabs, hs \in BOOLEAN :
        Connect(st, tabs, hs) /\ ConStep
  \/ \E t \in Conns : ListenStart(t) /\ UNCHANGED conVars /\ ConStep
  \/ CloseBegin /\ UNCHANGED conVars /\ ConStep
  \/ CloseEnd /\ UNCHANGED conVars /\ ConStep

SpecConnect == Init /\ [][NextConnect]_vars

NextWait ==
  \/ ConnectOk /\ CdpStep
  \/ \E t \in Conns : ListenStart(t) /\ CdpStep
  \/ \E t \in Conns, f \in Frames, n \in 0..1 : ListenFrame(t, f) /\ WaitReply(f, n) /\ WaitStep
  \/ \E t \in Conns : ListenClosed(t) /\ CdpStep
  \/ \E k \in Conns : RemoteClose(k) /\ CdpStep
  \/ \E T \in Timeouts : WaitForSelector(T) /\ WaitStep
  \/ WaitDocReturned /\ WaitStep
  \/ WaitQueryReturned /\ WaitStep
  \/ WaitWake /\ WaitStep
  \/ Tick /\ WaitStep
  \/ DomAppear /\ WaitStep

SpecWait == Init /\ [][NextWait]_vars

SndStep == UNCHANGED <<waitVars, engVars, anaVars, regVars, lastFrame, facVars, sumVars, lrnVars, recVars, httpVars, ctxVars>>

\* connect(), close(), the browser closing the connection, and send_command
\* calls whose replies never come
NextSend ==
  \/ \E st \in Statuses, tabs \in {t \in Tabs : Len(t) <= 1}, hs \in BOOLEAN :
       Connect(st, tabs, hs) /\ UNCHANGED refusedTick /\ SndStep
  \/ \E t \in Conns : ListenStart(t) /\ UNCHANGED <<conVars, refusedTick>> /\ SndStep
  \/ \E t \in Conns : ListenClosed(t) /\ UNCHANGED <<conVars, refusedTick>> /\ SndStep
  \/ CloseBegin /\ UNCHANGED <<conVars, refusedTick>> /\ SndStep
  \/ CloseEnd /\ UNCHANGED <<conVars, refusedTick>> /\ SndStep
  \/ \E k \in Conns : RemoteClose(k) /\ UNCHANGED <<conVars, refusedTick>> /\ SndStep
  \/ SendCommand /\ UNCHANGED <<conVars, refusedTick>> /\ SndStep
  \/ SendNotConnected /\ refusedTick' = ~refusedTick /\ UNCHANGED conVars /\ SndStep

SpecSend == Init /\ [][NextSend]_vars

LrnStep == UNCHANGED <<cdpVars, waitVars, anaVars, regVars, lastFrame, conVars, facVars, sumVars,
                       running, listeners, starts, mpc, spc, enq, stopSeen, caught, secVars, refusedTick, recVars, httpVars, ctxVars>>

\* the producers, the primary loop's write of the cell and the drain
NextExecutor ==
  \/ \E ty \in ActionTypes : PutAction(ty) /\ UNCHANGED <<hevents, htasks, hraised, xfailed>> /\ LrnStep
  \/ \E t \in Snapshots : ObserveText(t) /\ UNCHANGED <<hevents, htasks, hraised, xfailed>> /\ LrnStep
  \/ \E after \in Snapshots \cup {"None"}, fails \in BOOLEAN :
       ExecuteAction(after, fails) /\ UNCHANGED <<hevents, htasks, hraised, xfailed>> /\ LrnStep

SpecExecutor == Init /\ [][NextExecutor]_vars

\* the executor with the actions whose body raised on record: the learning
\* call is made, and can fail, only when the cell is set
FailSeen(fails) ==
  xfailed' = IF CellSet(last_screen_content) /\ fails
             THEN Append(xfailed, QueueGet(action_queue)[1])
             ELSE xfailed

NextDrain ==
  \/ \E ty \in ActionTypes :
       PutAction(ty) /\ UNCHANGED <<hevents, htasks, hraised, xfailed>> /\ LrnStep
  \/ \E t \in Snapshots :
       ObserveText(t) /\ UNCHANGED <<hevents, htasks, hraised, xfailed>> /\ LrnStep
  \/ \E after \in Snapshots \cup {"None"}, fails \in BOOLEAN :
       ExecuteAction(after, fails) /\ FailSeen(fails)
       /\ UNCHANGED <<hevents, htasks, hraised>> /\ LrnStep

SpecDrain == Init /\ [][NextDrain]_vars

HdlStep == UNCHANGED <<cdpVars, waitVars, engVars, anaVars, regVars, lastFrame, conVars, facVars,
                       sumVars, learned, automated, xraised, xfailed, refusedTick, recVars, httpVars, ctxVars>>

\* the listeners deliver input events
NextHandlers ==
  \/ \E pressed \in BOOLEAN : OnClick(pressed) /\ HdlStep
  \/ \E ev \in {"scroll", "key press", "key release"} : OnEvent(ev) /\ HdlStep

SpecHandlers == Init /\ [][NextHandlers]_vars

SumStep == UNCHANGED <<cdpVars, waitVars, engVars, anaVars, regVars, lastFrame, conVars, facVars, lrnVars, refusedTick, recVars, httpVars, ctxVars>>

\* the lists of at most n key elements an analysis can bring when seen
\* distinct elements are in the log: known ones and, named in order, new ones
RECURSIVE NewKeys(_, _)
NewKeys(seen, n) ==
  IF n = 0 THEN {<<>>}
  ELSE {<<>>} \cup
       UNION {{<<el>> \o rest : rest \in NewKeys(IF el > seen THEN seen + 1 ELSE seen, n - 1)} :
                el \in {x \in Elements : x <= seen + 1}}

NextSummary ==
  \/ \E conf \in LogConfs :
       \E keys \in NewKeys(Len(Tally(AllKeys(dailyLog))),
                           MaxPatterns + 1 - Len(AllKeys(dailyLog))) :
         AppendAnalysis(conf, keys) /\ SumStep
  \/ GetDailySummary /\ SumStep

SpecSummary == Init /\ [][NextSummary]_vars

FacStep == UNCHANGED <<cdpVars, waitVars, engVars, anaVars, regVars, lastFrame, conVars, sumVars, lrnVars, refusedTick, recVars, httpVars, ctxVars>>

NextFacade ==
  \/ \E m \in FacadeMethods, sel, ok \in BOOLEAN : FacadeCall(m, sel, ok) /\ FacStep
  \/ \E r \in Replies : NavigateReturned(r) /\ FacStep
  \/ \E r \in Replies, ok \in BOOLEAN : GetDocumentReturned(r, ok) /\ FacStep
  \/ \E r \in Replies : QuerySelectorReturned(r) /\ FacStep
  \/ \E r \in Replies, ok \in BOOLEAN : SetInputValue(r, ok) /\ FacStep
  \/ \E r \in Replies, ok \in BOOLEAN : ClickElement(r, ok) /\ FacStep
  \/ \E r \in Replies, ok \in BOOLEAN : Screenshot(r, ok) /\ FacStep

SpecFacade == Init /\ [][NextFacade]_vars

\* the wait up to its first sleep, on a client that may be unconnected or
\* cut off, with the clock standing still
NextWaitFail ==
  \/ ConnectOk /\ CdpStep
  \/ \E t \in Conns : ListenStart(t) /\ CdpStep
  \/ \E t \in Conns, f \in Frames : ListenFrame(t, f) /\ WaitReply(f, 0) /\ WaitStep
  \/ \E t \in Conns : ListenClosed(t) /\ CdpStep
  \/ \E k \in Conns : RemoteClose(k) /\ CdpStep
  \/ \E T \in Timeouts : WaitForSelector(T) /\ WaitStep
  \/ WaitDocReturned /\ WaitStep
  \/ WaitQueryReturned /\ WaitStep

SpecWaitFail == Init /\ [][NextWaitFail]_vars

\* the responses the primary loop is run on: one for every way an iteration
\* can go on from the analysis (raise, enqueue nothing, enqueue n actions)
LoopResponses ==
  {r \in Responses :
     \/ r.kind # "object"
     \/ /\ r.obj.key = "suggested_actions"
        /\ r.obj.conf \in {[t |-> "num", v |-> Threshold], [t |-> "num", v |-> Threshold + 1],
                           [t |-> "str", v |-> 0]}}

NextEngine ==
  \/ Start /\ EngineStep
  \/ Stop /\ EngineStep
  \/ HttpQueueAction /\ EngineStep
  \/ \E l \in Loops : MainCheck(l) /\ EngineStep
  \/ \E l \in Loops, cap \in Captures : MainBody(l, cap) /\ EngineStep
  \/ \E l \in Loops, resp \in LoopResponses : MainAnalyzed(l, resp) /\ EngineStep
  \/ \E l \in Loops : MainExecuted(l) /\ EngineStep

\* start(), stop(), the primary loop and the producers of the action queue.
\* The secondary loop reads the flag only and shares nothing else with them.
SpecEngine == Init /\ [][NextEngine]_vars

\* The code's scheduling: the task of a primary loop is run whenever it can
\* go on, and capture_screen, the inference call and the learning call
\* return.  Nothing makes a client call start(), stop() or POST /action.
FairEngine ==
  /\ \A l \in Loops : WF_vars(MainCheck(l) /\ EngineStep)
  /\ \A l \in Loops : WF_vars(\E cap \in Captures : MainBody(l, cap) /\ EngineStep)
  /\ \A l \in Loops :
       WF_vars(\E resp \in LoopResponses : MainAnalyzed(l, resp) /\ EngineStep)
  /\ \A l \in Loops : WF_vars(MainExecuted(l) /\ EngineStep)

FairSpecEngine == SpecEngine /\ FairEngine

HttpStep == UNCHANGED <<cdpVars, waitVars, secVars, anaVars, regVars, lastFrame, conVars, facVars, sumVars, lrnVars, refusedTick, recVars, ctxVars>>

\* the HTTP endpoints /start, /stop and /action and the primary loop of the
\* engine they drive
NextHttp ==
  \/ HttpStart /\ HttpStep
  \/ HttpStartReturns /\ HttpStep
  \/ HttpStop /\ HttpStep
  \/ HttpQueueAction /\ EngineStep
  \/ \E l \in Loops : MainCheck(l) /\ EngineStep
  \/ \E l \in Loops, cap \in Captures : MainBody(l, cap) /\ EngineStep
  \/ \E l \in Loops, resp \in LoopResponses : MainAnalyzed(l, resp) /\ EngineStep
  \/ \E l \in Loops : MainExecuted(l) /\ EngineStep

SpecHttp == Init /\ [][NextHttp]_vars

CtxStep == UNCHANGED <<cdpVars, waitVars, engVars, anaVars, regVars, lastFrame, conVars, facVars, sumVars, lrnVars, refusedTick, recVars, httpVars>>

\* generate calls, one after the other
NextContext ==
  \/ \E outcome \in Outcomes : Generate(outcome) /\ CtxStep

SpecContext == Init /\ [][NextContext]_vars

\* the same with the secondary loop's task running
NextLoops ==
  \/ NextEngine
  \/ \E l \in Loops, cap \in Captures : SecRun(l, cap) /\ UNCHANGED secText /\ SecStep

SpecLoops == Init /\ [][NextLoops]_vars

\* analyses of arbitrary responses, each followed by its processing
NextAnalysis ==
  \/ \E resp \in Responses : Analyze(resp) /\ AnaStep
  \/ Process /\ AnaStep

SpecAnalysis == Init /\ [][NextAnalysis]_vars

\* the registry's two methods and the process table
NextRegistry ==
  \/ \E n \in Names, p \in Pids : RegisterCommand(n, p) /\ RegStep
  \/ GetCommandStats /\ RegStep
  \/ \E p \in Pids : ProcExit(p) /\ RegStep
  \/ \E p \in Pids : ProcSpawn(p) /\ RegStep
  \/ \E p \in Pids : ProcAccess(p) /\ RegStep

SpecRegistry == Init /\ [][NextRegistry]_vars

\* 'start_time': time.time() of the register_command call, here the call's
\* ordinal
StartTimeSet(n) ==
  /\ regClock < MaxRegs
  /\ regClock' = regClock + 1
  /\ start_time' = Registered(start_time, n, regClock + 1)

RepStep == UNCHANGED <<cdpVars, waitVars, engVars, anaVars, lastFrame, conVars, facVars, lrnVars, refusedTick, httpVars, ctxVars>>

\* the registry with its records in full, processes that exit, and the
\* observation log with its summary
NextReports ==
  \/ \E n \in Names, p \in Pids :
       RegisterCommand(n, p) /\ StartTimeSet(n) /\ UNCHANGED sumVars /\ RepStep
  \/ GetCommandStats /\ UNCHANGED <<recVars, sumVars>> /\ RepStep
  \/ \E p \in Pids : ProcExit(p) /\ UNCHANGED <<recVars, sumVars>> /\ RepStep
  \/ AppendAnalysis([t |-> "num", v |-> Threshold], <<1>>)
       /\ UNCHANGED <<regVars, recVars>> /\ RepStep
  \/ GetDailySummary /\ UNCHANGED <<regVars, recVars>> /\ RepStep

SpecReports == Init /\ [][NextReports]_vars

\* start(), stop() and the secondary loop alone
NextSecondary ==
  \/ Start /\ EngineStep
  \/ Stop /\ EngineStep
  \/ \E l \in Loops, cap \in Captures : SecRun(l, cap) /\ SecSeen(cap) /\ SecStep

SpecSecondary == Init /\ [][NextSecondary]_vars

\* C30: wait_for_selector never raises and returns only a boolean; a probe
\* whose send_command raises makes it return false; with timeout 0 it
\* returns false without issuing any request.
C30_WaitNeverRaises ==
  /\ [](wpc # "raised" /\ wres \in BOOLEAN)
  /\ [][(wpc \in {"idle", "doc"} /\ wpc' # wpc /\ (ws = 0 \/ ~connOpen[ws]))
         => (wpc' = "done" /\ ~wres')]_vars
  /\ [][(wpc = "idle" /\ wpc' # "idle" /\ deadline' = now)
         => (wpc' = "done" /\ ~wres' /\ issued' = issued /\ message_id' = message_id
             /\ callbacks' = callbacks)]_vars

\* the connection is cut after get_document's reply: the DOM.querySelector
\* send raises inside the probe and the wait has returned false
C30_Witness ==
  /\ wpc = "done" /\ ~wres
  /\ deadline > now
  /\ ws # 0 /\ ~connOpen[ws]
  /\ \E c \in DOMAIN cpc : cpc[c] = "returned"

\* C22: when the DOM.focus or the Input.insertText request of set_input_value
\* is answered with an error payload, set_input_value returns false.
C22_ErrorReplyMeansFalse ==
  (/\ fmeth = "set_input_value"
   /\ fpc = "done"
   /\ \E i \in 1..Len(frecv) :
        /\ fsent[i].method \in {"DOM.focus", "Input.insertText"}
        /\ frecv[i] = "error")
  => fret = "False"

\* C23: click_element sends get-document, query-selector, box model,
\* mousePressed, mouseReleased in that order, each after the reply to the one
\* before, press and release at the center of the box; when no node is found
\* or the box-model reply has no result it returns false and has dispatched
\* no mouse event.
C23_ClickInOrder ==
  LET name(q) == IF q.method = "Input.dispatchMouseEvent" THEN q.type ELSE q.method
      order == <<"DOM.getDocument", "DOM.querySelector", "DOM.getBoxModel",
                 "mousePressed", "mouseReleased">>
      mouse == \E i \in 1..Len(fsent) : fsent[i].method = "Input.dispatchMouseEvent"
  IN fmeth = "click_element" =>
       /\ Len(fsent) <= Len(order)
       /\ \A i \in 1..Len(fsent) : name(fsent[i]) = order[i]
       /\ Len(fsent) <= Len(frecv) + 1
       /\ \A i \in 1..Len(fsent) :
            fsent[i].method = "Input.dispatchMouseEvent" =>
              fsent[i].pt = <<(fbox[1] + fbox[3]) \div 2, (fbox[2] + fbox[6]) \div 2>>
       /\ mouse => (fnode = 1 /\ frecv[3] = "result" /\ fbox \in Boxes)
       /\ (fpc = "done" /\ ~mouse) => fret = "False"
       /\ (fpc = "done" /\ mouse) => (fret = "True" /\ Len(fsent) = 5)

\* a click that went through: both events at the center (4, 6) of the
\* rectangle (2, 4)-(6, 8)
C23_Witness ==
  /\ fmeth = "click_element" /\ fpc = "done" /\ fret = "True"
  /\ fbox = Quad(2, 4, 6, 8)
  /\ Len(fsent) = 5
  /\ fsent[4] = MouseEvent("mousePressed", <<4, 6>>)
  /\ fsent[5] = MouseEvent("mouseReleased", <<4, 6>>)

\* C24: a failure of send_command inside navigate, query_selector,
\* set_input_value, click_element or screenshot is turned into the method's
\* false/none sentinel: the method does not raise.
C24_FacadeReturnsSentinel == fpc # "raised"

\* C25: the secondary loop writes last_screen_content too: once one of its
\* iterations has extracted text, the cell holds a snapshot.
C25_SecondaryWritesCell ==
  secText > 0 => last_screen_content # "None"

C27_UnknownTypeIgnored ==
  /\ [](~xraised)
  /\ [][(/\ executed' # executed
         /\ Head(action_queue).type \notin {"click", "type", "scroll"})
        => /\ action_queue' = Tail(action_queue)
           /\ executed' = Append(executed, Head(action_queue))
           /\ automated' = automated
           /\ ~xraised']_vars

\* an action of an unknown type was executed while the cell was set, then
\* the click queued behind it
C27_Witness ==
  /\ Len(executed) = 2
  /\ executed[1].type = "hover" /\ executed[2].type = "click"
  /\ Len(learned) = 2
  /\ action_queue = <<>> /\ ~xraised

\* C28: every input event handler schedules one learning task (the click
\* handler for a press only) and raises nothing.
C28_HandlersScheduleTasks ==
  /\ hraised = 0
  /\ htasks = Cardinality({i \in 1..Len(hevents) : hevents[i] # "release"})

C31_NotConnectedAllocatesNothing ==
  /\ [][refusedTick' # refusedTick =>
          /\ ws = 0
          /\ message_id' = message_id /\ callbacks' = callbacks
          /\ issued' = issued /\ cpc' = cpc /\ cid' = cid]_vars
  /\ [][ws = 0 =>
          /\ message_id' = message_id /\ issued' = issued
          /\ \A i \in Ids : callbacks'[i] # 0 => callbacks[i] # 0]_vars

\* after one request was sent and close() returned, a send_command call
\* raised at the guard: the counter is still 1
C31_Witness ==
  /\ refusedTick
  /\ ws = 0 /\ connCount = 1 /\ closePc = "idle"
  /\ message_id = 1 /\ Len(issued) = 1

\* C32: when the write fails inside send_command the call raises, its id
\* stays consumed (the counter never goes back and no later call gets the
\* id) and its entry stays in the correlation table.
C32_FailedWriteKeepsIdAndEntry ==
  /\ [](\A c \in Ids : cpc[c] = "raised" =>
          /\ cid[c] \in 1..message_id
          /\ callbacks[cid[c]] = c
          /\ \A d \in Ids \ {c} : cpc[d] # "idle" => cid[d] # cid[c])
  /\ [][message_id' >= message_id]_vars

\* the browser closed the connection, the first request's write failed, and
\* after a new connect() the second request got id 2
C32_Witness ==
  /\ cpc[1] = "raised" /\ cid[1] = 1 /\ callbacks[1] = 1
  /\ cpc[2] = "waiting" /\ cid[2] = 2
  /\ connCount = 2

\* C33: every key of the correlation table is an id that was issued (between
\* 1 and the counter) and not yet resolved: it belongs to a call that has
\* not returned.
C33_TableKeysPending ==
  \A i \in Ids : callbacks[i] # 0 =>
    /\ i \in 1..message_id
    /\ \E n \in 1..Len(issued) : issued[n] = i
    /\ cid[callbacks[i]] = i
    /\ cpc[callbacks[i]] # "returned"
    /\ resolved[i] = 0

\* of two requests the second is resolved and gone from the table, the
\* first is still pending in it
C33_Witness ==
  /\ message_id = 2
  /\ callbacks[1] = 1 /\ cpc[1] = "waiting"
  /\ callbacks[2] = 0 /\ cpc[2] = "returned" /\ resolved[2] = 1

\* C34: reading a frame never ends the receive loop, be it no JSON, a reply
\* whose id has no table entry, or a reply whose handling raises: a loop
\* ends only once close() lowered the flag or the connection closed.  A
\* frame that is no JSON or matches no entry changes neither the table nor
\* any call, and a reply for a pending request resolves it.
C34_LoopSurvivesBadFrames ==
  /\ [][lastFrame' # "none" =>
          \A t \in Conns : (lpc[t] # "done" /\ lpc'[t] = "done") => (~listening \/ ws = 0)]_vars
  /\ [][(lastFrame' = "garbage" \/ (lastFrame' = "reply" /\ resolved' = resolved)) =>
          /\ callbacks' = callbacks /\ cpc' = cpc /\ cres' = cres]_vars
  /\ [][\A i \in Ids :
          (lastFrame' = "reply" /\ callbacks[i] # 0 /\ callbacks'[i] = 0
           /\ cpc[callbacks[i]] = "waiting")
          => (cpc'[callbacks[i]] = "returned" /\ cres'[callbacks[i]].id = i)]_vars

\* a frame that is no JSON has just been read while a request is pending:
\* the loop is receiving again and the request is still awaited
C34_Witness ==
  /\ lastFrame = "garbage"
  /\ lpc[1] = "recv" /\ listening /\ ws = 1
  /\ message_id = 1 /\ cpc[1] = "waiting" /\ callbacks[1] = 1

\* C35: while the engine stays Running, an action that is on the action
\* queue is eventually dequeued and executed (or the engine has left
\* Running), also when iterations of the primary loop raise before the drain.
C35_QueuedEventuallyExecuted ==
  \A p \in Producers, n \in 1..MaxActions :
    (running /\ \E i \in 1..Len(action_queue) : action_queue[i] = [prod |-> p, n |-> n])
    ~> (\/ ~running
        \/ \E i \in 1..Len(executed) : executed[i] = [prod |-> p, n |-> n])

\* C36: an action whose execution raises is taken off the queue by that very
\* turn of the drain, is never on the queue again and is executed once; the
\* failure does not reach the drain, which goes on with the actions left.
C36_FailedActionDropped ==
  /\ [](~xraised)
  /\ [][xfailed' # xfailed =>
          /\ action_queue' = Tail(action_queue)
          /\ executed' = Append(executed, Head(action_queue))
          /\ xfailed' = Append(xfailed, Head(action_queue))]_vars
  /\ [](\A i \in 1..Len(xfailed) :
          /\ \A j \in 1..Len(action_queue) : action_queue[j] # xfailed[i]
          /\ Cardinality({j \in 1..Len(executed) : executed[j] = xfailed[i]}) = 1)

\* the execution of the first of two queued actions failed; the drain went
\* on and executed the second, and the queue is empty
C36_Witness ==
  /\ Len(executed) = 2
  /\ xfailed = <<executed[1]>>
  /\ Len(learned) = 2
  /\ action_queue = <<>> /\ ~xraised

\* C37: last_screen_content is assigned only by a primary loop, only with
\* extracted text and only in the step in which the analysis of that text
\* and its processing have returned without raising; once it holds text it
\* never holds None again, whatever start(), stop() and the loops do.
C37_CellWrittenAfterAnalysis ==
  /\ [][last_screen_content' # last_screen_content =>
          /\ last_screen_content' = "text"
          /\ \E l \in Loops : /\ mpc[l] = "analyzing"
                               /\ mpc'[l] \in {"sleeping", "executing"}]_vars
  /\ [][last_screen_content # "None" => last_screen_content' # "None"]_vars

\* the cell was written under the first start(); the engine was stopped and
\* started again, an iteration has raised since, and the cell still holds
\* the text
C37_Witness ==
  /\ last_screen_content = "text"
  /\ starts = 2 /\ ~running /\ caught
  /\ \A l \in Loops : mpc[l] = "done"

\* C38: register_command writes the record of its name only: the pid and the
\* start time it is given replace the ones the name had, and the records of
\* the other names stay as they are.  get_command_stats and
\* get_daily_summary change neither the registry nor the observation log,
\* and a get_command_stats result has an entry for exactly the registered
\* names.
C38_OneRecordPerName ==
  /\ [][regClock' # regClock =>
          \E n \in Names :
            /\ running_commands'[n] \in Pids
            /\ start_time'[n] = regClock'
            /\ \A m \in Names \ {n} : /\ running_commands'[m] = running_commands[m]
                                       /\ start_time'[m] = start_time[m]]_vars
  /\ [][regClock' = regClock =>
          (running_commands' = running_commands /\ start_time' = start_time)]_vars
  /\ [][statsTick' # statsTick =>
          /\ dailyLog' = dailyLog /\ regClock' = regClock
          /\ {n \in Names : stats'[n] # Absent} = {n \in Names : running_commands[n] # 0}]_vars
  /\ [][(summary' # summary /\ summary' # NoSummary) =>
          (dailyLog' = dailyLog /\ regClock' = regClock)]_vars

\* "run" was registered, then "serve", then "run" again with another pid:
\* its record holds the new pid and start time, the record of "serve" is as
\* it was, and both reports have been made
C38_Witness ==
  /\ running_commands = [run |-> 2, serve |-> 1]
  /\ start_time = [run |-> 3, serve |-> 2]
  /\ stats["run"] # Absent /\ stats["serve"] # Absent
  /\ summary.kind = "summary" /\ Len(dailyLog) = 2

\* C39: whenever /start answers "started" the engine is Running at that
\* moment, and /start on a Running engine answers "already running" and
\* starts no further loop.
C39_StartedMeansRunning ==
  /\ [][(startTick' # startTick /\ startAnswer' = "started") => running']_vars
  /\ [][(startTick' # startTick /\ startAnswer' = "already running") =>
          (running /\ starts' = starts /\ mpc' = mpc /\ spc' = spc)]_vars

\* C40: the context holds at most max_context_length entries, and they are
\* the entries of the most recent successful generate calls in their order;
\* a call that fails leaves it as it was.
C40_SlidingWindow ==
  /\ Len(context) <= max_context_length
  /\ context = IF Len(succeeded) > max_context_length
               THEN SubSeq(succeeded, Len(succeeded) - max_context_length + 1, Len(succeeded))
               ELSE succeeded

\* twelve calls, one of them failed: the oldest successful entry has been
\* evicted and the window is full
C40_Witness ==
  /\ gcalls = 12 /\ Len(succeeded) = 11
  /\ Len(context) = max_context_length
  /\ context[1] = succeeded[2]
  /\ context[max_context_length].prompt = 11

====
